---- MODULE Spec2Model ----
(***************************************************************************)
(* Token-bucket RateLimiter and the services built on it                   *)
(* (WebSearchService, SearXNGService) of cql-studio-server.                *)
(*                                                                         *)
(* Time is the value of Date.now() in milliseconds; the clock is observed  *)
(* at whole seconds.  Token counts and refill rates are JavaScript numbers *)
(* (fractions); they are kept here as exact integer multiples of 1/Unit.   *)
(***************************************************************************)
EXTENDS Integers, Sequences, FiniteSets, TLC

\* ------------------------------------------------------------- bounds
MaxTicks == 2        \* seconds the clock may advance
NumCallers == 2      \* requests that may be in flight at once
MaxRequests == 2     \* largest maxRequests argument a configure call is given
MaxCalls == 3        \* acquire calls made on the limiter in one run
MaxOps == 2          \* service operations started in one run
MaxConfigures == 2   \* configure calls made after construction
MaxChildren == 11    \* child entries of a sitemap index
MaxSkipped == 2      \* children of one index that do not answer with a urlset
MaxEntries == 3      \* <url> / <sitemap> elements of a parsed sitemap document
MaxOverrun == 2      \* characters by which a drawn length exceeds a limit
MaxAnchors == 3      \* <a href> elements of a page
MaxUrls == 11        \* URLs handed to batch_fetch
MaxFound == 6        \* results the search endpoint has for a query
MaxFailed == 2       \* fetches of one batch that fail
MaxLimit == 3        \* largest per-second limit an X-RateLimit-Limit header names

\* ------------------------------------------------------------- constants
MsPerSecond == 1000
FetchMaxRequests == 20
FetchWindowMs == 60000
SearxngMaxRequests == 30
SearxngWindowMs == 60000
MaxExpand == 10
MAX_TITLE_LEN == 500
MAX_TEXT_LEN == 50000
MinCutPoint == 40000
MarkerLen == 24
PlainTextLimit == 50000
UnsupportedTextLen == 71
FeedTitleLimit == 500
LinkTextLimit == 200
BatchLimit == 10
MAX_HEAD_BYTES == 150000
BraveSearchMaxRequests == 1
BraveWindowMs == 1000
MaxToFetch == 5
DefaultToFetch == 3
FeedSummaryLimit == 2000
FeedDescriptionLimit == 1000

Ops == {"fetch", "searxng"}
Callers == 1..NumCallers
Windows == {1000, 2000}
ConfigInputs == (1..MaxRequests) \X Windows
AllConfigs == ConfigInputs \cup {<<FetchMaxRequests, FetchWindowMs>>,
                                 <<SearxngMaxRequests, SearxngWindowMs>>}

Exact(u) == \A c \in AllConfigs : (c[1] * MsPerSecond * u) % c[2] = 0
\* one token, in the fixed-point representation of token counts and rates
Unit == CHOOSE u \in 1..60 : Exact(u) /\ \A v \in 1..(u - 1) : ~Exact(v)

Min(a, b) == IF a < b THEN a ELSE b
Max(a, b) == IF a > b THEN a ELSE b
\* Math.ceil(a / b) for b > 0
Ceil(a, b) == -((-a) \div b)
\* Math.floor of a token count, in whole tokens
Floor(t) == t \div Unit

VARIABLES
    now,            \* Date.now()
    tokens,         \* RateLimiter.tokens      : Map operation -> number
    maxTokens,      \* RateLimiter.maxTokens
    lastRefill,     \* RateLimiter.lastRefill
    refillRate,     \* RateLimiter.refillRate  (tokens per second)
    pc,             \* where each caller is
    call,           \* the operation each caller is running
    saved,          \* locals a suspended acquire keeps across its await
    step,           \* the handler that ran last, with what it saw and returned
    admitted,       \* history: per class, acquire calls admitted since it was configured
                    \*          (in ServiceSpec: since the observed run began)
    resumed,        \* history: those of them admitted on resumption from a wait
    configuredAt,   \* history: when the class was last configured
    filled,         \* history: stored count right after the last refill/configure
    drawn,          \* history: admissions since that refill/configure
    wellSpaced,     \* history: every acquire since a fresh configure came >= 1/rate after the previous
    lastCallAt,     \* history: time of the previous acquire call (0: none)
    httpRequests,   \* history: outbound HTTP requests issued by the acquisition service
    fetchAcquired,  \* history: 'fetch' tokens acquired (admitted acquire('fetch') calls)
    searchRequests, \* history: outbound HTTP requests issued by the search proxy
    calls,          \* history: operations started
    configures,     \* history: configure calls made after construction
    input,          \* the arguments and the remote document a parser run works on
    frame,          \* fetchSitemap while it expands an index: its loop variables
    output          \* what that run handed to its caller

limiter == <<tokens, maxTokens, lastRefill, refillRate>>
callers == <<pc, call, saved>>
history == <<admitted, resumed, configuredAt, filled, drawn, wellSpaced, lastCallAt>>
counters == <<httpRequests, fetchAcquired, searchRequests, calls, configures>>
parse == <<input, frame, output>>
vars == <<now, limiter, callers, step, history, counters, parse>>

\* ------------------------------------------------------------- Map helpers
Has(m, k) == k \in DOMAIN m
MapSetAll(m, k, v) == [x \in (DOMAIN m) \cup {k} |-> v]

\* Map.set
MapSet(m, k, v) == [x \in (DOMAIN m) \cup {k} |-> IF x = k THEN v ELSE m[x]]
\* `m.get(k) || d`: undefined and 0 are both falsy
GetOr(m, k, d) == IF Has(m, k) /\ m[k] # 0 THEN m[k] ELSE d

NowTick == now \div MsPerSecond

NoCall == [api |-> "none", op |-> "none", urlOk |-> TRUE]
NoSaved == [maxTokens |-> 0, refillRate |-> 0, wakeAt |-> 0]
\* no index is being expanded
NoFrame == [active |-> FALSE, maxExpand |-> 0, i |-> 0, allUrls |-> <<>>, got |-> <<>>,
            skipped |-> 0]
\* nothing has been handed to the caller yet
NoOutput == [done |-> FALSE]
Step(act, api, p, op, before, refilled, ret, out) ==
    [act |-> act, api |-> api, p |-> p, op |-> op, before |-> before,
     refilled |-> refilled, ret |-> ret, out |-> out]

\* ------------------------------------------------------------- RateLimiter
\* maxRequests / (windowMs / 1000)
RateOf(maxRequests, windowMs) == (maxRequests * MsPerSecond * Unit) \div windowMs

AlwaysUnconfigured(op) == TRUE

\* `!maxTokens || !refillRate`
NotConfigured(op) == GetOr(maxTokens, op, 0) = 0 \/ GetOr(refillRate, op, 0) = 0

\* now - (lastRefill.get(operation) || now)
Elapsed(op) == now - GetOr(lastRefill, op, now)

\* Math.min(maxTokens, currentTokens + (elapsed / 1000) * refillRate)
RefilledTokens(maxT, rate, cur, elapsed) ==
    Min(maxT, cur + (elapsed * rate) \div MsPerSecond)

\* the token count after the lazy refill of acquire / getRemainingTokens
Refilled(op) ==
    IF Elapsed(op) > 0
    THEN RefilledTokens(maxTokens[op], refillRate[op], GetOr(tokens, op, 0), Elapsed(op))
    ELSE GetOr(tokens, op, 0)

MustWaitWhenOne(cur) == cur <= Unit

\* `currentTokens < 1`
MustWait(cur) == cur < Unit

\* Math.ceil((1 - currentTokens) / refillRate * 1000)
WaitTime(cur, rate) == Ceil((Unit - cur) * MsPerSecond, rate)

\* `Math.min(maxTokens, refillRate) - 1`, written after the wait
ResumedTokens(maxT, rate) == Min(maxT, rate) - Unit

\* `currentTokens - 1`
ConsumedTokens(cur) == cur - Unit

\* Math.max(0, Math.floor(tokens))
RemainingTokens(cur) == Max(0, Floor(cur))

ThrownLimiterTouched(op) ==
    [tokens |-> MapSet(tokens, op, 0), maxTokens |-> maxTokens,
     lastRefill |-> MapSet(lastRefill, op, now), refillRate |-> refillRate]

\* the limiter as acquire leaves it when it throws for an unconfigured class
ThrownLimiter(op) ==
    [tokens |-> tokens, maxTokens |-> maxTokens, lastRefill |-> lastRefill,
     refillRate |-> refillRate]

\* callers are interchangeable: a new request takes the first idle one
Free(p) == pc[p] = "idle" /\ \A q \in Callers : q < p => pc[q] # "idle"

WaitingOn(op) == {p \in Callers : pc[p] = "acquire_wait" /\ call[p].op = op}

\* history kept on every admission of an acquire on op
Admit(op) ==
    /\ admitted' = [admitted EXCEPT ![op] = @ + 1]
    /\ fetchAcquired' = IF op = "fetch" THEN fetchAcquired + 1 ELSE fetchAcquired

\* history kept on every acquire call on a configured class
Spacing(op) ==
    /\ wellSpaced' = [wellSpaced EXCEPT ![op] =
           @ /\ (lastCallAt[op] = 0
                 \/ (now - lastCallAt[op]) * refillRate[op] >= MsPerSecond * Unit)]
    /\ lastCallAt' = [lastCallAt EXCEPT ![op] = now]

\* configure(operation, maxRequests, windowMs)
ConfigureOp(op, maxRequests, windowMs) ==
    /\ maxTokens' = MapSet(maxTokens, op, maxRequests * Unit)
    /\ tokens' = MapSet(tokens, op, maxRequests * Unit)
    /\ refillRate' = MapSet(refillRate, op, RateOf(maxRequests, windowMs))
    /\ lastRefill' = MapSet(lastRefill, op, now)
    /\ admitted' = [admitted EXCEPT ![op] = 0]
    /\ resumed' = [resumed EXCEPT ![op] = 0]
    /\ configuredAt' = [configuredAt EXCEPT ![op] = now]
    /\ filled' = [filled EXCEPT ![op] = maxRequests * Unit]
    /\ drawn' = [drawn EXCEPT ![op] = 0]
    /\ wellSpaced' = [wellSpaced EXCEPT ![op] = WaitingOn(op) = {}]
    /\ lastCallAt' = [lastCallAt EXCEPT ![op] = 0]

Configure(op, maxRequests, windowMs) ==
    /\ UNCHANGED parse
    /\ configures < MaxConfigures
    /\ configures' = configures + 1
    /\ ConfigureOp(op, maxRequests, windowMs)
    /\ step' = Step("configure", "configure", 0, op, GetOr(tokens, op, 0), 0, 0, "ok")
                @@ [maxRequests |-> maxRequests, windowMs |-> windowMs]
    /\ UNCHANGED <<now, callers, httpRequests, fetchAcquired, searchRequests, calls>>

\* acquire(operation), from the call to its first await or its return.
\* Leaves the caller at pc `then` when admitted at once, at "acquire_wait"
\* when suspended, and idle when it throws.
AcquireCall(p, op, api, urlOk, then) ==
    /\ IF NotConfigured(op)
       THEN /\ tokens' = ThrownLimiter(op).tokens
            /\ maxTokens' = ThrownLimiter(op).maxTokens
            /\ lastRefill' = ThrownLimiter(op).lastRefill
            /\ refillRate' = ThrownLimiter(op).refillRate
            /\ step' = Step("acquire_throw", api, p, op, GetOr(tokens, op, 0), 0, 0, "ConfigError")
            /\ UNCHANGED <<callers, history, fetchAcquired>>
       ELSE LET cur == Refilled(op) IN
            /\ maxTokens' = maxTokens
            /\ refillRate' = refillRate
            /\ lastRefill' = IF Elapsed(op) > 0 THEN MapSet(lastRefill, op, now) ELSE lastRefill
            /\ Spacing(op)
            /\ UNCHANGED configuredAt
            /\ IF MustWait(cur)
               THEN /\ tokens' = MapSet(tokens, op, cur)
                    /\ pc' = [pc EXCEPT ![p] = "acquire_wait"]
                    /\ call' = [call EXCEPT ![p] = [api |-> api, op |-> op, urlOk |-> urlOk]]
                    /\ saved' = [saved EXCEPT ![p] =
                           [maxTokens |-> maxTokens[op], refillRate |-> refillRate[op],
                            wakeAt |-> now + WaitTime(cur, refillRate[op])]]
                    /\ filled' = [filled EXCEPT ![op] = IF Elapsed(op) > 0 THEN cur ELSE @]
                    /\ drawn' = [drawn EXCEPT ![op] = IF Elapsed(op) > 0 THEN 0 ELSE @]
                    /\ step' = Step("acquire_suspend", api, p, op, GetOr(tokens, op, 0), cur, 0, "waiting")
                    /\ UNCHANGED <<admitted, resumed, fetchAcquired>>
               ELSE /\ tokens' = MapSet(tokens, op, ConsumedTokens(cur))
                    /\ pc' = [pc EXCEPT ![p] = then]
                    /\ call' = [call EXCEPT ![p] =
                           IF then = "idle" THEN NoCall
                           ELSE [api |-> api, op |-> op, urlOk |-> urlOk]]
                    /\ saved' = saved
                    /\ filled' = [filled EXCEPT ![op] = IF Elapsed(op) > 0 THEN cur ELSE @]
                    /\ drawn' = [drawn EXCEPT ![op] = IF Elapsed(op) > 0 THEN 1 ELSE @ + 1]
                    /\ Admit(op)
                    /\ resumed' = resumed
                    /\ step' = Step("acquire_admit", api, p, op, GetOr(tokens, op, 0), cur, 0, "admitted")

\* acquire(operation), from the timer firing to its return
AcquireResume(p, then) ==
    /\ pc[p] = "acquire_wait"
    /\ now >= saved[p].wakeAt
    /\ LET op == call[p].op IN
       /\ tokens' = MapSet(tokens, op, ResumedTokens(saved[p].maxTokens, saved[p].refillRate))
       /\ lastRefill' = MapSet(lastRefill, op, now)
       /\ UNCHANGED <<maxTokens, refillRate>>
       /\ pc' = [pc EXCEPT ![p] = then]
       /\ call' = [call EXCEPT ![p] = IF then = "idle" THEN NoCall ELSE @]
       /\ saved' = [saved EXCEPT ![p] = NoSaved]
       /\ filled' = [filled EXCEPT ![op] = IF Elapsed(op) > 0 THEN Refilled(op) ELSE @]
       /\ drawn' = [drawn EXCEPT ![op] = IF Elapsed(op) > 0 THEN 1 ELSE @ + 1]
       /\ Admit(op)
       /\ resumed' = [resumed EXCEPT ![op] = @ + 1]
       /\ step' = Step("acquire_resume", call[p].api, p, op, GetOr(tokens, op, 0), Refilled(op),
                       0, "admitted")
       /\ UNCHANGED <<configuredAt, wellSpaced, lastCallAt>>

\* what getRemainingTokens(operation) returns
PeekValue(op) == IF NotConfigured(op) THEN 0 ELSE RemainingTokens(Refilled(op))

\* what getRemainingTokens(operation) writes, for each operation of S
PeekEffects(S) ==
    LET refills(x) == x \in S /\ ~NotConfigured(x) /\ Elapsed(x) > 0 IN
    /\ tokens' = [x \in DOMAIN tokens |-> IF refills(x) THEN Refilled(x) ELSE tokens[x]]
    /\ lastRefill' = [x \in DOMAIN lastRefill |-> IF refills(x) THEN now ELSE lastRefill[x]]
    /\ UNCHANGED <<maxTokens, refillRate>>
    /\ filled' = [x \in Ops |-> IF refills(x) THEN Refilled(x) ELSE filled[x]]
    /\ drawn' = [x \in Ops |-> IF refills(x) THEN 0 ELSE drawn[x]]

\* ------------------------------------------------------------- actions of the limiter
Acquire(p, op) ==
    /\ UNCHANGED parse
    /\ Free(p)
    /\ calls < MaxCalls
    /\ calls' = calls + 1
    /\ AcquireCall(p, op, "acquire", TRUE, "idle")
    /\ UNCHANGED <<now, httpRequests, searchRequests, configures>>

Resume(p) ==
    /\ UNCHANGED parse
    /\ call[p].api = "acquire"
    /\ AcquireResume(p, "idle")
    /\ UNCHANGED <<now, httpRequests, searchRequests, calls, configures>>

GetRemainingTokens(op) ==
    /\ UNCHANGED parse
    /\ PeekEffects({op})
    /\ step' = Step("getRemainingTokens", "getRemainingTokens", 0, op, GetOr(tokens, op, 0),
                    IF NotConfigured(op) THEN GetOr(tokens, op, 0) ELSE Refilled(op),
                    PeekValue(op), "ok")
    /\ UNCHANGED <<now, callers, counters, admitted, resumed, configuredAt, wellSpaced, lastCallAt>>

Tick ==
    /\ UNCHANGED parse
    /\ NowTick <= MaxTicks
    /\ now' = now + MsPerSecond
    /\ step' = Step("tick", "tick", 0, "none", 0, 0, 0, "ok")
    /\ UNCHANGED <<limiter, callers, history, counters>>

\* the state after `new RateLimiter()`
Init ==
    /\ now = MsPerSecond
    /\ tokens = <<>>
    /\ maxTokens = <<>>
    /\ lastRefill = <<>>
    /\ refillRate = <<>>
    /\ pc = [p \in Callers |-> "idle"]
    /\ call = [p \in Callers |-> NoCall]
    /\ saved = [p \in Callers |-> NoSaved]
    /\ step = Step("init", "init", 0, "none", 0, 0, 0, "ok")
    /\ admitted = [op \in Ops |-> 0]
    /\ resumed = [op \in Ops |-> 0]
    /\ configuredAt = [op \in Ops |-> 0]
    /\ filled = [op \in Ops |-> 0]
    /\ drawn = [op \in Ops |-> 0]
    /\ wellSpaced = [op \in Ops |-> TRUE]
    /\ lastCallAt = [op \in Ops |-> 0]
    /\ httpRequests = 0
    /\ searchRequests = 0
    /\ fetchAcquired = 0
    /\ calls = 0
    /\ configures = 0
    /\ input = [api |-> "none"]
    /\ frame = NoFrame
    /\ output = NoOutput

Next ==
    \/ \E op \in Ops, c \in ConfigInputs : Configure(op, c[1], c[2])
    \/ \E p \in Callers, op \in Ops : Acquire(p, op)
    \/ \E p \in Callers : Resume(p)
    \/ \E op \in Ops : GetRemainingTokens(op)
    \/ Tick

Spec == Init /\ [][Next]_vars

\* ------------------------------------------------------------- services
FetchApis == {"fetchUrl", "fetchMetadata", "fetchFeed", "extractLinks", "fetchSitemap"}
ServiceApis == FetchApis \cup {"search"}
\* what the remote answers to a request of the acquisition service
Responses == {"ok", "http_error", "300_location", "300_nolocation", "300_badlocation",
              "abort", "network_error"}
\* what the search endpoint answers
SearchResponses == {"ok", "403", "429", "404", "500", "non_json", "abort", "network_error"}

Done(p) ==
    /\ pc' = [pc EXCEPT ![p] = "idle"]
    /\ call' = [call EXCEPT ![p] = NoCall]
    /\ saved' = saved

\* the error `new URL(normalized)` raises for an unparseable URL: it is
\* evaluated before the try block, so the TypeError reaches the caller as it is
UrlError(api) == "TypeError"

\* the catch block of each operation: the error its caller receives
Classified(api, r) ==
    CASE r = "abort" -> "Timeout"
      [] r = "invalid_url" -> "InvalidURL"
      [] r = "rate_limit" -> "RateLimited"
      [] OTHER -> "Failed"

\* follow300Redirect: does the first response lead to a second request?
Follows300(api, r) == api = "fetchUrl" /\ r = "300_location"

\* the outcome of an operation whose last response is r: fetchMetadata
\* reports a non-2xx status in its result, the others throw on `!response.ok`
FetchOutcome(api, r) ==
    CASE r \in {"abort", "network_error"} -> Classified(api, r)
      [] r = "ok" -> "ok"
      [] api = "fetchMetadata" -> "ok"
      [] OTHER -> Classified(api, "http_error")

\* the outcome when the first response ends the operation: in fetchUrl a 300
\* whose Location does not parse makes `new URL(location, originalUrl)` throw
\* inside the try block
FirstOutcome(api, r) ==
    IF api = "fetchUrl" /\ r = "300_badlocation"
    THEN Classified(api, "invalid_url")
    ELSE FetchOutcome(api, r)

RedirectTargetFromFinal(location, originalUrl) == [location |-> location, base |-> "response.url"]

\* new URL(location, originalUrl).href
RedirectTarget(location, originalUrl) == [location |-> location, base |-> originalUrl]

\* fetchUrl, fetchMetadata, fetchFeed, extractLinks, fetchSitemap: up to the
\* first await, which is `await this.rateLimiter.acquire('fetch')`.  The child
\* fetches of an expanded sitemap index are fetchSitemap calls of their own.
FetchStart(p, api, urlOk) ==
    /\ UNCHANGED parse
    /\ Free(p)
    /\ calls < MaxOps
    /\ calls' = calls + 1
    /\ AcquireCall(p, "fetch", api, urlOk, "acquired")
    /\ UNCHANGED <<now, httpRequests, searchRequests, configures>>

\* a suspended acquire of a service operation resumes
ServiceResume(p) ==
    /\ UNCHANGED parse
    /\ call[p].api \in ServiceApis
    /\ AcquireResume(p, "acquired")
    /\ UNCHANGED <<now, httpRequests, searchRequests, calls, configures>>

\* after the acquire: cleanUrl, new URL(normalized), then the request is issued
FetchProceed(p) ==
    /\ UNCHANGED parse
    /\ pc[p] = "acquired"
    /\ call[p].api \in FetchApis
    /\ IF call[p].urlOk
       THEN /\ httpRequests' = httpRequests + 1
            /\ pc' = [pc EXCEPT ![p] = "request"]
            /\ UNCHANGED <<call, saved>>
            /\ step' = Step("request", call[p].api, p, "fetch", 0, 0, 0, "pending")
                        @@ [resp |-> "none", url |-> "normalized"]
       ELSE /\ Done(p)
            /\ step' = Step("return", call[p].api, p, "fetch", 0, 0, 0, UrlError(call[p].api))
                        @@ [resp |-> "none"]
            /\ UNCHANGED httpRequests
    /\ UNCHANGED <<now, limiter, history, fetchAcquired, searchRequests, calls, configures>>

\* the first response arrives (or the timeout aborts the request)
FetchResponse(p, r) ==
    /\ UNCHANGED parse
    /\ pc[p] = "request"
    /\ call[p].api \in FetchApis
    /\ IF Follows300(call[p].api, r)
       THEN /\ httpRequests' = httpRequests + 1
            /\ pc' = [pc EXCEPT ![p] = "redirect"]
            /\ UNCHANGED <<call, saved>>
            /\ step' = Step("request", call[p].api, p, "fetch", 0, 0, 0, "pending")
                        @@ [resp |-> r, url |-> RedirectTarget("Location", "normalized")]
       ELSE /\ Done(p)
            /\ step' = Step("return", call[p].api, p, "fetch", 0, 0, 0, FirstOutcome(call[p].api, r))
                        @@ [resp |-> r]
            /\ UNCHANGED httpRequests
    /\ UNCHANGED <<now, limiter, history, fetchAcquired, searchRequests, calls, configures>>

\* the response to the follow-up request of follow300Redirect arrives
FetchRedirectResponse(p, r) ==
    /\ UNCHANGED parse
    /\ pc[p] = "redirect"
    /\ Done(p)
    /\ step' = Step("return", call[p].api, p, "fetch", 0, 0, 0, FetchOutcome(call[p].api, r))
                @@ [resp |-> r]
    /\ UNCHANGED <<now, limiter, history, counters>>

PreCheckFailsBelowZero(remaining) == remaining < 0

\* `this.rateLimiter.getRemainingTokens('searxng') < 1`
PreCheckFails(remaining) == remaining < 1

\* SearXNGService.search up to its first await: validation, the pre-check and
\* the synchronous part of acquire('searxng').  The pre-check has refilled the
\* bucket at this same instant, so the refill inside acquire adds nothing.
SearchStart(p, paramsOk) ==
    /\ UNCHANGED parse
    /\ Free(p)
    /\ calls < MaxOps
    /\ calls' = calls + 1
    /\ IF ~paramsOk
       THEN /\ step' = Step("reject", "search", p, "searxng", GetOr(tokens, "searxng", 0),
                            0, 0, "ValidationError")
            /\ UNCHANGED <<limiter, callers, history, fetchAcquired>>
       ELSE IF PreCheckFails(PeekValue("searxng"))
       THEN /\ PeekEffects({"searxng"})
            /\ step' = Step("reject", "search", p, "searxng", GetOr(tokens, "searxng", 0),
                            IF NotConfigured("searxng") THEN GetOr(tokens, "searxng", 0)
                            ELSE Refilled("searxng"),
                            PeekValue("searxng"), "RateLimitError")
            /\ UNCHANGED <<callers, admitted, resumed, configuredAt, wellSpaced, lastCallAt, fetchAcquired>>
       ELSE AcquireCall(p, "searxng", "search", TRUE, "acquired")
    /\ UNCHANGED <<now, httpRequests, searchRequests, configures>>

\* after the acquire: the search URL is built and the request is issued
SearchProceed(p) ==
    /\ UNCHANGED parse
    /\ pc[p] = "acquired"
    /\ call[p].api = "search"
    /\ searchRequests' = searchRequests + 1
    /\ pc' = [pc EXCEPT ![p] = "request"]
    /\ step' = Step("request", "search", p, "searxng", 0, 0, 0, "pending")
    /\ UNCHANGED <<now, limiter, call, saved, history, httpRequests, fetchAcquired, calls, configures>>

\* the status code the message of the error names
StatusInMessage(r) == IF r \in {"403", "429", "404", "500"} THEN r ELSE "none"

\* router.post('/execute'): the HTTP status the client of the route receives
RouteStatus(out) ==
    CASE out = "ok" -> 200
      [] out = "RateLimitError" -> 429
      [] OTHER -> 500

SearchOutcomeForbiddenLimited(r) ==
    IF r \in {"403", "429"} THEN "RateLimitError" ELSE "UpstreamError"

\* the error of search for each answer of the endpoint
SearchOutcome(r) ==
    CASE r = "ok" -> "ok"
      [] r = "403" -> "Forbidden"
      [] r = "429" -> "RateLimitError"
      [] r \in {"404", "500"} -> "UpstreamError"
      [] r = "non_json" -> "NonJsonError"
      [] r = "abort" -> "Timeout"
      [] OTHER -> "NetworkError"

SearchResponse(p, r) ==
    /\ UNCHANGED parse
    /\ pc[p] = "request"
    /\ call[p].api = "search"
    /\ Done(p)
    /\ step' = Step("return", "search", p, "searxng", 0, 0, 0, SearchOutcome(r))
                @@ [resp |-> r, status |-> StatusInMessage(r), http |-> RouteStatus(SearchOutcome(r))]
    /\ UNCHANGED <<now, limiter, history, counters>>

\* get_rate_limit_status
GetRateLimitStatus ==
    /\ UNCHANGED parse
    /\ PeekEffects({"fetch", "searxng"})
    /\ step' = Step("return", "get_rate_limit_status", 0, "fetch", GetOr(tokens, "fetch", 0),
                    IF NotConfigured("fetch") THEN GetOr(tokens, "fetch", 0) ELSE Refilled("fetch"),
                    [fetch_remaining |-> PeekValue("fetch"),
                     searxng_remaining |-> PeekValue("searxng")], "ok")
    /\ UNCHANGED <<now, callers, counters, admitted, resumed, configuredAt, wellSpaced, lastCallAt>>

\* the capacity and rate each service configures in its constructor
ServiceCapacity(op) ==
    IF op = "fetch" THEN FetchMaxRequests * Unit ELSE SearxngMaxRequests * Unit
ServiceRate(op) ==
    IF op = "fetch" THEN RateOf(FetchMaxRequests, FetchWindowMs)
    ELSE RateOf(SearxngMaxRequests, SearxngWindowMs)

\* token counts a class is left with by the requests served before the
\* observed run: the bucket still full, drained to one token, drained to none,
\* or drained and refilled since to one second short of a whole token
StartLevels(op) == {ServiceCapacity(op), Unit, 0, Unit - ServiceRate(op)}

\* a state of the running server: `new ToolExecutor()` has constructed both
\* services, each has configured its class, and earlier requests have drawn
\* on the buckets
ServiceInit ==
    /\ now = MsPerSecond
    /\ maxTokens = [op \in Ops |-> ServiceCapacity(op)]
    /\ \E lf \in StartLevels("fetch"), ls \in StartLevels("searxng") :
           tokens = [op \in Ops |-> IF op = "fetch" THEN lf ELSE ls]
    /\ refillRate = [op \in Ops |-> ServiceRate(op)]
    /\ lastRefill = [op \in Ops |-> now]
    /\ pc = [p \in Callers |-> "idle"]
    /\ call = [p \in Callers |-> NoCall]
    /\ saved = [p \in Callers |-> NoSaved]
    /\ step = Step("init", "init", 0, "none", 0, 0, 0, "ok")
    /\ admitted = [op \in Ops |-> 0]
    /\ resumed = [op \in Ops |-> 0]
    /\ configuredAt = [op \in Ops |-> now]
    /\ filled = tokens
    /\ drawn = [op \in Ops |-> 0]
    /\ wellSpaced = [op \in Ops |-> tokens[op] = maxTokens[op]]
    /\ lastCallAt = [op \in Ops |-> 0]
    /\ httpRequests = 0
    /\ searchRequests = 0
    /\ fetchAcquired = 0
    /\ calls = 0
    /\ configures = 0
    /\ input = [api |-> "none"]
    /\ frame = NoFrame
    /\ output = NoOutput

ServiceNext ==
    \/ \E p \in Callers, api \in FetchApis, urlOk \in BOOLEAN : FetchStart(p, api, urlOk)
    \/ \E p \in Callers : ServiceResume(p)
    \/ \E p \in Callers : FetchProceed(p)
    \/ \E p \in Callers, r \in Responses : FetchResponse(p, r)
    \/ \E p \in Callers, r \in Responses : FetchRedirectResponse(p, r)
    \/ \E p \in Callers, paramsOk \in BOOLEAN : SearchStart(p, paramsOk)
    \/ \E p \in Callers : SearchProceed(p)
    \/ \E p \in Callers, r \in SearchResponses : SearchResponse(p, r)
    \/ GetRateLimitStatus
    \/ Tick

ServiceSpec == ServiceInit /\ [][ServiceNext]_vars

\* ------------------------------------------------------------- fetchSitemap
\* what the remote answers to the request for the index itself
IndexResponses == {"ok", "http_error", "abort"}
\* what the remote answers to the request for a child sitemap
ChildResponses == {"urlset", "index", "http_error", "abort", "parse_error"}

\* the <url> entries of the i-th child sitemap, in document order
ChildUrls(i) == [j \in 1..(1 + (i % 2)) |-> <<i, j>>]

ExpandCountAll(n) == n

\* maxExpand = Math.min(10, parsed.sitemaps.length)
ExpandCount(n) == Min(MaxExpand, n)

\* parsed.type === 'sitemapindex' && parsed.sitemaps && expandIndex && parsed.sitemaps.length > 0
Expands(expandIndex, n) == expandIndex /\ n > 0

\* the outcome of one child call: it returned a result with these urls (none
\* when the child is an index itself), or it threw
Returned(urls) == [returned |-> TRUE, urls |-> urls]
ThrewButKept == [returned |-> TRUE, urls |-> <<<<0, 0>>>>]
Threw == [returned |-> FALSE, urls |-> <<>>]

ChildResultExpanded(i, r) ==
    IF r \in {"urlset", "index"} THEN Returned(ChildUrls(i)) ELSE Threw

\* what fetchSitemap(loc, false) hands the loop for child i: the urls of a
\* urlset, a sitemapindex result, which has no `urls`, or an exception
ChildResult(i, r) ==
    CASE r = "urlset" -> Returned(ChildUrls(i))
      [] r = "index" -> Returned(<<>>)
      [] OTHER -> Threw

\* what the loop does with child i once its fetchSitemap(loc, false) has
\* returned or thrown: `if (child.urls) allUrls.push(...child.urls)`, or the
\* empty catch
ChildDone(p, got) ==
    /\ frame' = [frame EXCEPT !.allUrls = IF got.returned THEN @ \o got.urls ELSE @,
                              !.got = Append(@, got),
                              !.skipped = IF got = Returned(ChildUrls(frame.i)) THEN @ ELSE @ + 1]
    /\ pc' = [pc EXCEPT ![p] = "expanding"]
    /\ UNCHANGED <<call, saved, output>>

\* fetchSitemap(url, expandIndex) up to its first await
SitemapStart(p, urlOk) ==
    /\ Free(p)
    /\ calls = 0
    /\ calls' = calls + 1
    /\ AcquireCall(p, "fetch", "fetchSitemap", urlOk, "acquired")
    /\ UNCHANGED <<now, httpRequests, searchRequests, configures, parse>>

\* after the acquire: cleanUrl, new URL(normalized), then the request is issued.
\* The TypeError of an unparseable child URL is caught by the loop of the parent.
SitemapProceed(p) ==
    /\ pc[p] = "acquired"
    /\ call[p].api = "fetchSitemap"
    /\ IF call[p].urlOk
       THEN /\ httpRequests' = httpRequests + 1
            /\ pc' = [pc EXCEPT ![p] = "request"]
            /\ UNCHANGED <<call, saved, parse>>
            /\ step' = Step("request", "fetchSitemap", p, "fetch", 0, 0, 0, "pending")
       ELSE IF ~frame.active
       THEN /\ Done(p)
            /\ output' = [done |-> TRUE, error |-> UrlError("fetchSitemap")]
            /\ step' = Step("return", "fetchSitemap", p, "fetch", 0, 0, 0, UrlError("fetchSitemap"))
            /\ UNCHANGED <<httpRequests, input, frame>>
       ELSE /\ ChildDone(p, Threw)
            /\ step' = Step("child_skipped", "fetchSitemap", p, "fetch", 0, 0, 0, UrlError("fetchSitemap"))
            /\ UNCHANGED <<httpRequests, input>>
    /\ UNCHANGED <<now, limiter, history, fetchAcquired, searchRequests, calls, configures>>

\* the response to the request for the index arrives
SitemapResponse(p, r) ==
    /\ pc[p] = "request"
    /\ call[p].api = "fetchSitemap"
    /\ ~frame.active
    /\ IF r # "ok"
       THEN /\ Done(p)
            /\ output' = [done |-> TRUE, error |-> FetchOutcome("fetchSitemap", r)]
            /\ step' = Step("return", "fetchSitemap", p, "fetch", 0, 0, 0, FetchOutcome("fetchSitemap", r))
            /\ UNCHANGED frame
       ELSE IF Expands(input.expandIndex, input.sitemaps)
       THEN /\ frame' = [active |-> TRUE, maxExpand |-> ExpandCount(input.sitemaps), i |-> 0, allUrls |-> <<>>,
                         got |-> <<>>, skipped |-> 0]
            /\ pc' = [pc EXCEPT ![p] = "expanding"]
            /\ step' = Step("expand", "fetchSitemap", p, "fetch", 0, 0, 0, "pending")
            /\ UNCHANGED <<call, saved, output>>
       ELSE /\ Done(p)
            /\ output' = [done |-> TRUE, type |-> "sitemapindex", sitemaps |-> input.sitemaps]
            /\ step' = Step("return", "fetchSitemap", p, "fetch", 0, 0, 0, "ok")
            /\ UNCHANGED frame
    /\ UNCHANGED <<now, limiter, history, counters, input>>

\* the loop takes the next child: `await this.fetchSitemap(parsed.sitemaps[i].loc, false)`
\* up to the first await of that call
ChildStart(p, urlOk) ==
    /\ pc[p] = "expanding"
    /\ frame.i < frame.maxExpand
    /\ urlOk \/ frame.skipped < MaxSkipped
    /\ frame' = [frame EXCEPT !.i = @ + 1]
    /\ AcquireCall(p, "fetch", "fetchSitemap", urlOk, "acquired")
    /\ UNCHANGED <<now, httpRequests, searchRequests, calls, configures, input, output>>

\* the response to the request for child i arrives
ChildResponse(p, r) ==
    /\ pc[p] = "request"
    /\ call[p].api = "fetchSitemap"
    /\ frame.active
    /\ r = "urlset" \/ frame.skipped < MaxSkipped
    /\ ChildDone(p, ChildResult(frame.i, r))
    /\ step' = Step(IF r \in {"urlset", "index"} THEN "child_returned" ELSE "child_skipped",
                    "fetchSitemap", p, "fetch", 0, 0, r,
                    IF r \in {"urlset", "index"} THEN "ok" ELSE FetchOutcome("fetchSitemap", r))
    /\ UNCHANGED <<now, limiter, history, counters, input>>

\* the loop is over: `return { type: 'urlset', url: normalized, urls: allUrls }`
ExpandReturn(p) ==
    /\ pc[p] = "expanding"
    /\ frame.i = frame.maxExpand
    /\ Done(p)
    /\ output' = [done |-> TRUE, type |-> "urlset", urls |-> frame.allUrls, got |-> frame.got]
    /\ frame' = NoFrame
    /\ step' = Step("return", "fetchSitemap", p, "fetch", 0, 0, 0, "ok")
    /\ UNCHANGED <<now, limiter, history, counters, input>>

\* a running server about to serve fetch_sitemap for an index of n children
SitemapInit ==
    /\ now = MsPerSecond
    /\ maxTokens = [op \in Ops |-> ServiceCapacity(op)]
    /\ \E lf \in StartLevels("fetch") :
           tokens = [op \in Ops |-> IF op = "fetch" THEN lf ELSE ServiceCapacity(op)]
    /\ refillRate = [op \in Ops |-> ServiceRate(op)]
    /\ lastRefill = [op \in Ops |-> now]
    /\ pc = [p \in Callers |-> "idle"]
    /\ call = [p \in Callers |-> NoCall]
    /\ saved = [p \in Callers |-> NoSaved]
    /\ step = Step("init", "init", 0, "none", 0, 0, 0, "ok")
    /\ admitted = [op \in Ops |-> 0]
    /\ resumed = [op \in Ops |-> 0]
    /\ configuredAt = [op \in Ops |-> now]
    /\ filled = tokens
    /\ drawn = [op \in Ops |-> 0]
    /\ wellSpaced = [op \in Ops |-> tokens[op] = maxTokens[op]]
    /\ lastCallAt = [op \in Ops |-> 0]
    /\ httpRequests = 0
    /\ searchRequests = 0
    /\ fetchAcquired = 0
    /\ calls = 0
    /\ configures = 0
    /\ input \in [api : {"fetchSitemap"}, expandIndex : BOOLEAN, sitemaps : 0..MaxChildren]
    /\ frame = NoFrame
    /\ output = NoOutput

SitemapNext ==
    \/ \E p \in Callers, urlOk \in BOOLEAN : SitemapStart(p, urlOk)
    \/ \E p \in Callers : ServiceResume(p)
    \/ \E p \in Callers : SitemapProceed(p)
    \/ \E p \in Callers, r \in IndexResponses : SitemapResponse(p, r)
    \/ \E p \in Callers, urlOk \in BOOLEAN : ChildStart(p, urlOk)
    \/ \E p \in Callers, r \in ChildResponses : ChildResponse(p, r)
    \/ \E p \in Callers : ExpandReturn(p)
    \/ Tick

SitemapSpec == SitemapInit /\ [][SitemapNext]_vars

\* ------------------------------------------------------------- waiting
\* acquire calls on the two configured classes of the running server, with
\* the clock advancing as long as a timer of `wait` is pending
WaitTick ==
    /\ UNCHANGED parse
    /\ \E p \in Callers : pc[p] = "acquire_wait" /\ now < saved[p].wakeAt
    /\ now' = now + MsPerSecond
    /\ step' = Step("tick", "tick", 0, "none", 0, 0, 0, "ok")
    /\ UNCHANGED <<limiter, callers, history, counters>>

WaitNext ==
    \/ \E p \in Callers, op \in Ops : Acquire(p, op)
    \/ \E p \in Callers : Resume(p)
    \/ WaitTick

\* time passes and a timer that is due fires
WaitFairness == WF_vars(WaitTick) /\ \A p \in Callers : WF_vars(Resume(p))

WaitSpec == ServiceInit /\ [][WaitNext]_vars /\ WaitFairness

\* ------------------------------------------------------------- timeouts
\* A round trip in two parts: until the promise of fetch() settles the timer
\* of fetchWithTimeout (of search) is armed; once it has settled with a
\* response, clearTimeout has run and the body is read with no timer armed.
\* does the operation read the body of an ok response of this content type?
ReadsBody(api, textual) == api \in {"fetchFeed", "fetchSitemap", "search"} \/ textual

\* the promise of fetch() settles: the response headers have arrived, the
\* request has failed, or (r = "abort") the timer has fired
HeadersArrive(p, r, textual) ==
    /\ UNCHANGED parse
    /\ pc[p] \in {"request", "redirect"}
    /\ IF call[p].api = "search" THEN r \in SearchResponses ELSE r \in Responses
    /\ IF pc[p] = "request" /\ Follows300(call[p].api, r)
       THEN /\ httpRequests' = httpRequests + 1
            /\ pc' = [pc EXCEPT ![p] = "redirect"]
            /\ UNCHANGED <<call, saved>>
            /\ step' = Step("request", call[p].api, p, call[p].op, 0, 0, 0, "pending")
       ELSE IF r = "ok" /\ ReadsBody(call[p].api, textual)
       THEN /\ pc' = [pc EXCEPT ![p] = "body"]
            /\ UNCHANGED <<call, saved, httpRequests>>
            /\ step' = Step("headers", call[p].api, p, call[p].op, 0, 0, 0, "pending")
       ELSE /\ Done(p)
            /\ UNCHANGED httpRequests
            /\ step' = Step("return", call[p].api, p, call[p].op, 0, 0, 0,
                            IF call[p].api = "search" THEN SearchOutcome(r)
                            ELSE IF pc[p] = "request" THEN FirstOutcome(call[p].api, r)
                            ELSE FetchOutcome(call[p].api, r))
    /\ UNCHANGED <<now, limiter, history, fetchAcquired, searchRequests, calls, configures>>

\* setTimeout(() => controller.abort(), timeoutMs) fires
TimerFires(p) == HeadersArrive(p, "abort", FALSE)

\* `await response.text()` / `await response.json()` settles
BodyArrives(p, complete) ==
    /\ UNCHANGED parse
    /\ pc[p] = "body"
    /\ Done(p)
    /\ step' = Step("return", call[p].api, p, call[p].op, 0, 0, 0,
                    IF complete THEN "ok"
                    ELSE IF call[p].api = "search" THEN "NetworkError"
                    ELSE Classified(call[p].api, "network_error"))
    /\ UNCHANGED <<now, limiter, history, counters>>

\* a server whose buckets are full
TimeoutInit ==
    /\ ServiceInit
    /\ tokens = maxTokens

TimeoutNext ==
    \/ \E p \in Callers, api \in FetchApis, urlOk \in BOOLEAN : FetchStart(p, api, urlOk)
    \/ \E p \in Callers : FetchProceed(p)
    \/ \E p \in Callers, paramsOk \in BOOLEAN : SearchStart(p, paramsOk)
    \/ \E p \in Callers : SearchProceed(p)
    \/ \E p \in Callers, r \in Responses \cup SearchResponses, textual \in BOOLEAN :
           HeadersArrive(p, r, textual)
    \/ \E p \in Callers, complete \in BOOLEAN : BodyArrives(p, complete)

\* the server runs its own steps and its timers fire; the remote owes nothing
TimeoutFairness ==
    \A p \in Callers :
        /\ WF_vars(FetchProceed(p))
        /\ WF_vars(SearchProceed(p))
        /\ WF_vars(TimerFires(p))

TimeoutSpec == TimeoutInit /\ [][TimeoutNext]_vars /\ TimeoutFairness

\* ------------------------------------------------------------- Brave search
\* The WebSearchService of tool-executor.ts: its limiter has the classes
\* 'search' and 'fetch', and every response of the search API may reconfigure
\* 'search' from its X-RateLimit-Limit header.
BraveOps == {"search", "fetch"}

\* an X-RateLimit-Limit header: absent (or empty), or present with a first
\* comma-separated value that parseInt reads as `value` or as NaN
Headers ==
    {[present |-> FALSE, numeric |-> FALSE, value |-> 0],
     [present |-> TRUE, numeric |-> FALSE, value |-> 0]}
        \cup [present : {TRUE}, numeric : {TRUE}, value : -1..MaxLimit]

AnyNumber(h) == h.present /\ h.numeric

\* limitHeader && perSecondLimit && perSecondLimit > 0
PositiveLimit(h) == h.present /\ h.numeric /\ h.value # 0 /\ h.value > 0

\* searchWeb up to its first await
SearchWebStart(p, keyOk) ==
    /\ UNCHANGED parse
    /\ Free(p)
    /\ calls < MaxOps
    /\ calls' = calls + 1
    /\ IF ~keyOk
       THEN /\ step' = Step("reject", "searchWeb", p, "search", GetOr(tokens, "search", 0),
                            0, 0, "ValidationError")
            /\ UNCHANGED <<limiter, callers, history, fetchAcquired>>
       ELSE AcquireCall(p, "search", "searchWeb", TRUE, "acquired")
    /\ UNCHANGED <<now, httpRequests, searchRequests, configures>>

\* the suspended acquire('search') resumes
SearchWebResume(p) ==
    /\ UNCHANGED parse
    /\ call[p].api = "searchWeb"
    /\ AcquireResume(p, "acquired")
    /\ UNCHANGED <<now, httpRequests, searchRequests, calls, configures>>

\* searchBrave up to `await fetch(...)`
SearchBraveRequest(p) ==
    /\ UNCHANGED parse
    /\ pc[p] = "acquired"
    /\ call[p].api = "searchWeb"
    /\ searchRequests' = searchRequests + 1
    /\ pc' = [pc EXCEPT ![p] = "request"]
    /\ step' = Step("request", "searchWeb", p, "search", 0, 0, 0, "pending")
    /\ UNCHANGED <<now, limiter, call, saved, history, httpRequests, fetchAcquired, calls, configures>>

\* a response arrives: updateRateLimiterFromBraveHeaders runs on it whatever
\* its status, then searchBrave returns results or throws
SearchBraveResponse(p, h, ok) ==
    /\ UNCHANGED parse
    /\ pc[p] = "request"
    /\ call[p].api = "searchWeb"
    /\ configures < MaxConfigures
    /\ Done(p)
    /\ IF PositiveLimit(h)
       THEN /\ ConfigureOp("search", h.value, BraveWindowMs)
            /\ configures' = configures + 1
       ELSE UNCHANGED <<limiter, history, configures>>
    /\ step' = Step("return", "searchWeb", p, "search", GetOr(tokens, "search", 0), 0, 0,
                    IF ok THEN "ok" ELSE "Failed") @@ [header |-> h]
    /\ UNCHANGED <<now, httpRequests, fetchAcquired, searchRequests, calls>>

\* the request fails or is aborted: no response, no header
SearchBraveFails(p) ==
    /\ UNCHANGED parse
    /\ pc[p] = "request"
    /\ call[p].api = "searchWeb"
    /\ Done(p)
    /\ step' = Step("return", "searchWeb", p, "search", 0, 0, 0, "Failed")
    /\ UNCHANGED <<now, limiter, history, counters>>

\* fetchUrl of this service up to its first await, admitted at once
BraveFetchStart(p) ==
    /\ UNCHANGED parse
    /\ Free(p)
    /\ calls < MaxOps
    /\ calls' = calls + 1
    /\ ~MustWait(Refilled("fetch"))
    /\ AcquireCall(p, "fetch", "fetchUrl", TRUE, "fetching")
    /\ UNCHANGED <<now, httpRequests, searchRequests, configures>>

\* the rest of that fetchUrl: request, response, parsing
BraveFetchReturn(p, ok) ==
    /\ UNCHANGED parse
    /\ pc[p] = "fetching"
    /\ Done(p)
    /\ httpRequests' = httpRequests + 1
    /\ step' = Step("return", "fetchUrl", p, "fetch", 0, 0, 0, IF ok THEN "ok" ELSE "Failed")
    /\ UNCHANGED <<now, limiter, history, fetchAcquired, searchRequests, calls, configures>>

\* the state after `new WebSearchService()`
BraveInit ==
    /\ now = MsPerSecond
    /\ maxTokens = [op \in BraveOps |-> IF op = "search" THEN BraveSearchMaxRequests * Unit
                                                         ELSE FetchMaxRequests * Unit]
    /\ tokens = maxTokens
    /\ refillRate = [op \in BraveOps |-> IF op = "search" THEN RateOf(BraveSearchMaxRequests, BraveWindowMs)
                                                          ELSE RateOf(FetchMaxRequests, FetchWindowMs)]
    /\ lastRefill = [op \in BraveOps |-> now]
    /\ pc = [p \in Callers |-> "idle"]
    /\ call = [p \in Callers |-> NoCall]
    /\ saved = [p \in Callers |-> NoSaved]
    /\ step = Step("init", "init", 0, "none", 0, 0, 0, "ok")
    /\ admitted = [op \in BraveOps |-> 0]
    /\ resumed = [op \in BraveOps |-> 0]
    /\ configuredAt = [op \in BraveOps |-> now]
    /\ filled = tokens
    /\ drawn = [op \in BraveOps |-> 0]
    /\ wellSpaced = [op \in BraveOps |-> TRUE]
    /\ lastCallAt = [op \in BraveOps |-> 0]
    /\ httpRequests = 0
    /\ searchRequests = 0
    /\ fetchAcquired = 0
    /\ calls = 0
    /\ configures = 0
    /\ input = [api |-> "none"]
    /\ frame = NoFrame
    /\ output = NoOutput

BraveNext ==
    \/ \E p \in Callers, keyOk \in BOOLEAN : SearchWebStart(p, keyOk)
    \/ \E p \in Callers : SearchWebResume(p)
    \/ \E p \in Callers : SearchBraveRequest(p)
    \/ \E p \in Callers, h \in Headers, ok \in BOOLEAN : SearchBraveResponse(p, h, ok)
    \/ \E p \in Callers : SearchBraveFails(p)
    \/ \E p \in Callers : BraveFetchStart(p)
    \/ \E p \in Callers, ok \in BOOLEAN : BraveFetchReturn(p, ok)
    \/ Tick

BraveSpec == BraveInit /\ [][BraveNext]_vars

\* ------------------------------------------------------------- ToolExecutor
\* batch_fetch and searxng_search_then_fetch: one search at most, then a loop
\* of fetchUrl calls, one at a time.  The loop keeps in `frame` the number of
\* URLs it goes through (maxExpand), the index of the current one (i), the
\* items pushed so far (got) and how many of them are failures (skipped).
BatchCountAll(n) == n

\* urls.slice(0, 10)
BatchCount(n) == Min(BatchLimit, n)

ToFetchClamped(given, value) ==
    IF given THEN Min(MaxToFetch, Max(1, value)) ELSE DefaultToFetch

\* Math.min(5, Math.max(1, Number(max_results_to_fetch) || 3)), the parameter
\* defaulting to 3 when absent
ToFetch(given, value) ==
    LET n == IF given THEN value ELSE DefaultToFetch
    IN  Min(MaxToFetch, Max(1, IF n = 0 THEN DefaultToFetch ELSE n))

\* rawResults.slice(0, max) of search, max being toFetch
ResultCount(found, toFetch) == Min(found, toFetch)

Fetched(i) == [url |-> i, ok |-> TRUE, error |-> "none"]
FailedItem(i, error) == [url |-> i, ok |-> FALSE, error |-> error]

Loop(n) == [active |-> TRUE, maxExpand |-> n, i |-> 0, allUrls |-> <<>>, got |-> <<>>, skipped |-> 0]

\* out.push(...) in the try or in the catch of the loop body
ItemDone(p, item) ==
    /\ frame' = [frame EXCEPT !.got = Append(@, item),
                              !.skipped = IF item.ok THEN @ ELSE @ + 1]
    /\ pc' = [pc EXCEPT ![p] = "looping"]
    /\ call' = [call EXCEPT ![p] = NoCall]
    /\ saved' = saved
    /\ step' = Step("item", input.api, p, "fetch", 0, 0, 0, IF item.ok THEN "ok" ELSE item.error)
    /\ UNCHANGED <<input, output>>

\* executeBatchFetch up to the loop
BatchStart(p) ==
    /\ Free(p)
    /\ input.api = "batch_fetch"
    /\ calls = 0
    /\ calls' = calls + 1
    /\ IF input.urls = 0
       THEN /\ output' = [done |-> TRUE, error |-> "ValidationError"]
            /\ step' = Step("reject", "batch_fetch", p, "fetch", 0, 0, 0, "ValidationError")
            /\ UNCHANGED <<callers, input, frame>>
       ELSE /\ frame' = Loop(BatchCount(input.urls))
            /\ pc' = [pc EXCEPT ![p] = "looping"]
            /\ step' = Step("loop", "batch_fetch", p, "fetch", 0, 0, 0, "pending")
            /\ UNCHANGED <<call, saved, input, output>>
    /\ UNCHANGED <<now, limiter, history, httpRequests, searchRequests, fetchAcquired, configures>>

\* executeSearXNGSearchThenFetch up to the first await of search()
SearchThenFetchStart(p, paramsOk) ==
    /\ input.api = "search_then_fetch"
    /\ calls = 0
    /\ SearchStart(p, paramsOk)

\* the answer of the search endpoint: search() throws, or the loop begins
SearchThenFetchResponse(p, r) ==
    /\ pc[p] = "request"
    /\ call[p].api = "search"
    /\ input.api = "search_then_fetch"
    /\ IF r # "ok"
       THEN /\ Done(p)
            /\ output' = [done |-> TRUE, error |-> SearchOutcome(r)]
            /\ step' = Step("return", "search_then_fetch", p, "searxng", 0, 0, 0, SearchOutcome(r))
            /\ UNCHANGED frame
       ELSE /\ frame' = Loop(ResultCount(input.found, ToFetch(input.given, input.value)))
            /\ pc' = [pc EXCEPT ![p] = "looping"]
            /\ call' = [call EXCEPT ![p] = NoCall]
            /\ saved' = saved
            /\ step' = Step("loop", "search_then_fetch", p, "searxng", 0, 0, 0, "pending")
            /\ UNCHANGED output
    /\ UNCHANGED <<now, limiter, history, counters, input>>

\* the loop takes the next URL: fetchUrl(url) up to its first await
ItemStart(p, urlOk) ==
    /\ pc[p] = "looping"
    /\ frame.i < frame.maxExpand
    /\ urlOk \/ frame.skipped < MaxFailed
    /\ frame' = [frame EXCEPT !.i = @ + 1]
    /\ AcquireCall(p, "fetch", "fetchUrl", urlOk, "acquired")
    /\ UNCHANGED <<now, httpRequests, searchRequests, calls, configures, input, output>>

\* after the acquire: cleanUrl, new URL(normalized), then the request
ItemProceed(p) ==
    /\ pc[p] = "acquired"
    /\ call[p].api = "fetchUrl"
    /\ frame.active
    /\ IF call[p].urlOk
       THEN /\ httpRequests' = httpRequests + 1
            /\ pc' = [pc EXCEPT ![p] = "request"]
            /\ step' = Step("request", "fetchUrl", p, "fetch", 0, 0, 0, "pending")
            /\ UNCHANGED <<call, saved, parse>>
       ELSE /\ ItemDone(p, FailedItem(frame.i, UrlError("fetchUrl")))
            /\ UNCHANGED httpRequests
    /\ UNCHANGED <<now, limiter, history, fetchAcquired, searchRequests, calls, configures>>

\* the first response to the request for the current URL
ItemResponse(p, r) ==
    /\ pc[p] = "request"
    /\ call[p].api = "fetchUrl"
    /\ frame.active
    /\ (r \in {"ok", "300_location"}) \/ frame.skipped < MaxFailed
    /\ IF Follows300("fetchUrl", r)
       THEN /\ httpRequests' = httpRequests + 1
            /\ pc' = [pc EXCEPT ![p] = "redirect"]
            /\ step' = Step("request", "fetchUrl", p, "fetch", 0, 0, 0, "pending")
            /\ UNCHANGED <<call, saved, parse>>
       ELSE /\ ItemDone(p, IF r = "ok" THEN Fetched(frame.i)
                            ELSE FailedItem(frame.i, FirstOutcome("fetchUrl", r)))
            /\ UNCHANGED httpRequests
    /\ UNCHANGED <<now, limiter, history, fetchAcquired, searchRequests, calls, configures>>

\* the response to the follow-up request of follow300Redirect
ItemRedirectResponse(p, r) ==
    /\ pc[p] = "redirect"
    /\ frame.active
    /\ r = "ok" \/ frame.skipped < MaxFailed
    /\ ItemDone(p, IF r = "ok" THEN Fetched(frame.i)
                    ELSE FailedItem(frame.i, FetchOutcome("fetchUrl", r)))
    /\ UNCHANGED <<now, limiter, history, counters>>

\* the loop is over: `return out`
LoopReturn(p) ==
    /\ pc[p] = "looping"
    /\ frame.i = frame.maxExpand
    /\ Done(p)
    /\ output' = [done |-> TRUE, items |-> frame.got]
    /\ frame' = NoFrame
    /\ step' = Step("return", input.api, p, "fetch", 0, 0, 0, "ok")
    /\ UNCHANGED <<now, limiter, history, counters, input>>

ExecutorInputs ==
    [api : {"batch_fetch"}, urls : 0..MaxUrls]
        \cup {in \in [api : {"search_then_fetch"}, given : BOOLEAN, value : -1..(MaxToFetch + 1),
                       found : 0..MaxFound] : in.given \/ in.value = 0}

\* what the remote answers to the request for one URL of the loop
ItemResponses == {"ok", "300_location", "http_error", "abort"}

\* time passes while the loop waits for a token; a response arrives within
\* the second of its request
TimerTick ==
    /\ \E p \in Callers : pc[p] = "acquire_wait"
    /\ Tick

\* a running server about to serve one call of either tool
ExecutorInit ==
    /\ now = MsPerSecond
    /\ maxTokens = [op \in Ops |-> ServiceCapacity(op)]
    /\ \E lf \in StartLevels("fetch"), ls \in {ServiceCapacity("searxng"), 0} :
           tokens = [op \in Ops |-> IF op = "fetch" THEN lf ELSE ls]
    /\ refillRate = [op \in Ops |-> ServiceRate(op)]
    /\ lastRefill = [op \in Ops |-> now]
    /\ pc = [p \in Callers |-> "idle"]
    /\ call = [p \in Callers |-> NoCall]
    /\ saved = [p \in Callers |-> NoSaved]
    /\ step = Step("init", "init", 0, "none", 0, 0, 0, "ok")
    /\ admitted = [op \in Ops |-> 0]
    /\ resumed = [op \in Ops |-> 0]
    /\ configuredAt = [op \in Ops |-> now]
    /\ filled = tokens
    /\ drawn = [op \in Ops |-> 0]
    /\ wellSpaced = [op \in Ops |-> tokens[op] = maxTokens[op]]
    /\ lastCallAt = [op \in Ops |-> 0]
    /\ httpRequests = 0
    /\ searchRequests = 0
    /\ fetchAcquired = 0
    /\ calls = 0
    /\ configures = 0
    /\ input \in ExecutorInputs
    /\ frame = NoFrame
    /\ output = NoOutput

ExecutorNext ==
    \/ \E p \in Callers : BatchStart(p)
    \/ \E p \in Callers, paramsOk \in BOOLEAN : SearchThenFetchStart(p, paramsOk)
    \/ \E p \in Callers : SearchProceed(p)
    \/ \E p \in Callers, r \in SearchResponses : SearchThenFetchResponse(p, r)
    \/ \E p \in Callers, urlOk \in BOOLEAN : ItemStart(p, urlOk)
    \/ \E p \in Callers : ServiceResume(p)
    \/ \E p \in Callers : ItemProceed(p)
    \/ \E p \in Callers, r \in ItemResponses : ItemResponse(p, r)
    \/ \E p \in Callers, r \in ItemResponses : ItemRedirectResponse(p, r)
    \/ \E p \in Callers : LoopReturn(p)
    \/ TimerTick

ExecutorSpec == ExecutorInit /\ [][ExecutorNext]_vars

\* ------------------------------------------------------------- parsers
\* Each parser is a pure function of the fetched document.  A run of ParserSpec
\* draws one document and applies to it the parser its kind selects.
SeqsUpTo(S, n) == UNION {[1..k -> S] : k \in 0..n}

\* everything but input and output, as `new RateLimiter()` leaves it
ParserIdle ==
    /\ now = MsPerSecond
    /\ tokens = <<>> /\ maxTokens = <<>> /\ lastRefill = <<>> /\ refillRate = <<>>
    /\ pc = [p \in Callers |-> "idle"]
    /\ call = [p \in Callers |-> NoCall]
    /\ saved = [p \in Callers |-> NoSaved]
    /\ step = Step("init", "init", 0, "none", 0, 0, 0, "ok")
    /\ admitted = [op \in Ops |-> 0]
    /\ resumed = [op \in Ops |-> 0]
    /\ configuredAt = [op \in Ops |-> 0]
    /\ filled = [op \in Ops |-> 0]
    /\ drawn = [op \in Ops |-> 0]
    /\ wellSpaced = [op \in Ops |-> TRUE]
    /\ lastCallAt = [op \in Ops |-> 0]
    /\ httpRequests = 0 /\ searchRequests = 0 /\ fetchAcquired = 0
    /\ calls = 0 /\ configures = 0
    /\ frame = NoFrame

\* a parser has run: its result goes to the caller
Parsed(api, result) ==
    /\ ~output.done
    /\ input.api = api
    /\ output' = result @@ [done |-> TRUE]
    /\ step' = Step("return", api, 0, "none", 0, 0, 0, "ok")
    /\ UNCHANGED <<now, limiter, callers, history, counters, input, frame>>

\* ---- sitemap documents, as XMLParser.parse hands them to parseSitemapXml:
\* the key of the root element and its value, which is the empty string for
\* an element without children and else an object with its child elements.
\* An entry is kept here by its <loc> text ("": none that getStr accepts).
RootKeys == {"urlset", "sitemapindex", "ns:urlset", "ns:sitemapindex", "html"}
DocEntries == [loc : {"a", "b", ""}]
RootValues ==
    {[kind |-> "text", entries |-> <<>>]}
        \cup {[kind |-> "object", entries |-> e] : e \in SeqsUpTo(DocEntries, MaxEntries)}
SitemapDocs == [root : RootKeys, value : RootValues]

\* obj.urlset ?? obj['urlset'] ?? (/urlset/i.test(rootKey) ? obj[rootKey] : undefined)
UrlsetOf(doc) == IF doc.root \in {"urlset", "ns:urlset"} THEN doc.value ELSE [kind |-> "undefined"]
\* obj.sitemapindex ?? obj['sitemapindex'] ?? (/sitemapindex/i.test(rootKey) ? ...)
SitemapIndexOf(doc) ==
    IF doc.root \in {"sitemapindex", "ns:sitemapindex"} THEN doc.value ELSE [kind |-> "undefined"]
\* `v && typeof v === 'object'`
IsObject(v) == v.kind = "object"
HasLoc(u) == u.loc # ""
\* toUrlList: map to {loc, ...}, then filter((u) => u.loc)
ToUrlList(urlset) == SelectSeq(urlset.entries, HasLoc)
\* toSitemapEntries: map to {loc, lastmod} or null, then filter(Boolean)
ToSitemapEntries(sitemapindex) == SelectSeq(sitemapindex.entries, HasLoc)

ParseSitemapXml(doc) ==
    IF IsObject(SitemapIndexOf(doc))
    THEN [type |-> "sitemapindex", sitemaps |-> ToSitemapEntries(SitemapIndexOf(doc))]
    ELSE IF IsObject(UrlsetOf(doc))
    THEN [type |-> "urlset", urls |-> ToUrlList(UrlsetOf(doc))]
    ELSE [type |-> "urlset", urls |-> <<>>]

\* allUrls after the loop over the first k children, each of which returned
RECURSIVE AllChildUrls(_)
AllChildUrls(k) == IF k = 0 THEN <<>> ELSE AllChildUrls(k - 1) \o ChildUrls(k)

\* fetchSitemap from `parseSitemapXml(xml)` to its return, every child answering
FetchSitemapResult(doc, expandIndex) ==
    LET parsed == ParseSitemapXml(doc) IN
    IF parsed.type = "sitemapindex" /\ Expands(expandIndex, Len(parsed.sitemaps))
    THEN [type |-> "urlset", urls |-> AllChildUrls(ExpandCount(Len(parsed.sitemaps)))]
    ELSE parsed

SitemapInputs == [api : {"fetchSitemap"}, doc : SitemapDocs, expandIndex : BOOLEAN]

\* ---- the body fetchUrl is handed.  A text is kept by its length and by the
\* index of its last '.' within the first MAX_TEXT_LEN characters (-1: none);
\* a page has besides the length of the title the selector chain resolves and
\* of the markup `mainContent.html()` serialises, a URL its own length and the
\* length of what follows its last '/'.
Lengths(limit) == {0, 3, limit - 1, limit} \cup {limit + k : k \in 1..MaxOverrun}
TextLengths == Lengths(MinCutPoint) \cup Lengths(MAX_TEXT_LEN)
DotIndexes == {-1, 0, MinCutPoint, MinCutPoint + 1, MAX_TEXT_LEN - 1}
Texts == {t \in [len : TextLengths, lastDot : DotIndexes] : t.lastDot < Min(t.len, MAX_TEXT_LEN)}
FinalUrls == {u \in [len : {12, 12 + MAX_TITLE_LEN}, lastSegment : {0, 4, 4 + MAX_TITLE_LEN}] :
                 u.lastSegment < u.len}
ContentTypes == {"text/html", "text/plain", "application/pdf", ""}

\* truncated.lastIndexOf('.')
LastSentence(text) == text.lastDot
\* truncated.lastIndexOf('\n\n'): the text is non-empty lines joined by single
\* '\n', so the search never finds one
LastParagraph(text) == -1

KeepWhole(text) == [len |-> text.len, prefix |-> text.len, marker |-> FALSE]

\* the block `if (textContent.length > MAX_TEXT_LEN) {...}` of parseHtmlToContent
TruncateText(text) ==
    IF text.len > MAX_TEXT_LEN
    THEN LET cutPoint == Max(LastSentence(text), LastParagraph(text))
             prefix == IF cutPoint > MinCutPoint THEN cutPoint ELSE MAX_TEXT_LEN
         IN  [len |-> prefix + MarkerLen, prefix |-> prefix, marker |-> TRUE]
    ELSE KeepWhole(text)

\* body.substring(0, 50000)
Substring(text, limit) ==
    [len |-> Min(text.len, limit), prefix |-> Min(text.len, limit), marker |-> FALSE]

\* finalUrl.split('/').pop() || finalUrl
LastSegmentOrUrl(url) == IF url.lastSegment > 0 THEN url.lastSegment ELSE url.len

ParseHtmlToContent(page) ==
    [title |-> Min(page.title, MAX_TITLE_LEN),
     content |-> page.markup,
     textContent |-> TruncateText(page.text)]

\* fetchUrl from `const contentType = ...` to its return
FetchUrlResult(in) ==
    IF in.contentType \notin {"text/html", "text/plain"}
    THEN [url |-> in.url.len, title |-> 16, content |-> 0,
          textContent |-> LET n == UnsupportedTextLen + Len(in.contentType)
                          IN  [len |-> n, prefix |-> n, marker |-> FALSE]]
    ELSE IF in.contentType = "text/plain"
    THEN [url |-> in.url.len, title |-> LastSegmentOrUrl(in.url),
          content |-> Substring(in.page.text, PlainTextLimit).len,
          textContent |-> Substring(in.page.text, PlainTextLimit)]
    ELSE [url |-> in.url.len] @@ ParseHtmlToContent(in.page)

MarkupLengths == TextLengths \cup Lengths(MAX_TEXT_LEN + MarkerLen)
Pages == {pg \in [title : Lengths(MAX_TITLE_LEN), markup : MarkupLengths, text : Texts] :
             pg.markup >= pg.text.len}
FetchUrlInputs == [api : {"fetchUrl"}, contentType : ContentTypes, url : FinalUrls, page : Pages]

ParseFetchUrl == Parsed("fetchUrl", FetchUrlResult(input))

\* ---- a feed as rss-parser hands it to parseFeedXml: the lengths of the
\* trimmed fields of the feed and of one item
FieldLengths == Lengths(FeedTitleLimit) \cup Lengths(FeedSummaryLimit)
                    \cup Lengths(MAX_TEXT_LEN + MarkerLen)
FeedItems == [title : Lengths(FeedTitleLimit), link : FieldLengths, summary : Lengths(FeedSummaryLimit)]
Feeds == [title : Lengths(FeedTitleLimit), link : Lengths(FeedTitleLimit),
          description : Lengths(FeedDescriptionLimit), item : FeedItems]

ParseFeedXml(feed) ==
    [title |-> Min(feed.title, FeedTitleLimit),
     link |-> feed.link,
     description |-> Min(feed.description, FeedDescriptionLimit),
     entry |-> [title |-> Min(feed.item.title, FeedTitleLimit),
                link |-> feed.item.link,
                summary |-> Min(feed.item.summary, FeedSummaryLimit)]]

FeedInputs == [api : {"fetchFeed"}, feed : Feeds]

ParseFeed == Parsed("fetchFeed", ParseFeedXml(input.feed))

ParseSitemap == Parsed("fetchSitemap", FetchSitemapResult(input.doc, input.expandIndex))

\* ---- the response fetchMetadata is handed: its status, whether its content
\* type names text/html, the index in the body at which the <title> element
\* ends (0: the page has none) and the og:image value: none, an absolute
\* http URL, a reference that resolves against the final URL, or one that
\* `new URL(img, finalUrl)` rejects.
Statuses == {200, 204, 300, 404, 500}
ImageKinds == {"none", "absolute", "relative", "malformed"}
MetadataInputs ==
    [api : {"fetchMetadata"}, status : Statuses, html : BOOLEAN,
     titleEnd : {0} \cup Lengths(MAX_HEAD_BYTES), image : ImageKinds]

\* response.ok
Ok(status) == status >= 200 /\ status <= 299

\* parseMetadataFromHtml on raw.substring(0, 150000)
ParseMetadataFromHtml(in) ==
    [title |-> in.titleEnd > 0 /\ in.titleEnd <= MAX_HEAD_BYTES,
     imageUrl |-> IF in.image = "relative" THEN "resolved" ELSE in.image]

NoMetadata == [title |-> FALSE, imageUrl |-> "none"]

\* fetchMetadata from the arrival of the response to its return or throw
FetchMetadataResult(in) ==
    LET result == [finalUrl |-> "response.url", statusCode |-> in.status, contentType |-> in.html] IN
    IF ~Ok(in.status) THEN result @@ NoMetadata
    ELSE IF ~in.html THEN result @@ NoMetadata
    ELSE IF in.image = "malformed" THEN [error |-> Classified("fetchMetadata", "invalid_url")]
    ELSE result @@ ParseMetadataFromHtml(in)

ParseMetadata == Parsed("fetchMetadata", FetchMetadataResult(input))

\* ---- the anchors of a page, in document order.  An href attribute is kept
\* as leading white space or none, the characters up to and including its
\* first ':' or '#' or the end of its authority, and the rest; the visible
\* text of an anchor by its trimmed length.
Href(lead, head, rest) == [lead |-> lead, head |-> head, rest |-> rest]
Hrefs == {Href(FALSE, "", "a"), Href(TRUE, "", "a"), Href(FALSE, "http://site", "a"),
          Href(FALSE, "", "long"), Href(FALSE, "http://other", "a"),
          Href(FALSE, "#", "a"), Href(TRUE, "javascript:", "a"),
          Href(FALSE, "mailto:", "a"), Href(FALSE, "tel:", "a"),
          Href(FALSE, "http://[", "a"), Href(FALSE, "", "")}
Anchors == [href : Hrefs, text : {0, 7, LinkTextLimit + 1}]

SKIP_PREFIXES == {"#", "javascript:", "mailto:", "tel:"}

\* new URL(finalUrl)
Base == [origin |-> "http://site", path |-> ""]

\* $(el).attr('href')?.trim()
Trim(href) == [href EXCEPT !.lead = FALSE]
\* !href
IsEmpty(href) == ~href.lead /\ href.head = "" /\ href.rest = ""
\* SKIP_PREFIXES.some((p) => href.startsWith(p))
StartsWithSkipPrefix(href) == ~href.lead /\ href.head \in SKIP_PREFIXES

\* new URL(href, base): a relative reference takes the origin of the base, an
\* absolute one keeps its own, a malformed authority throws
Resolve(href, base) ==
    IF href.head = "http://[" THEN [ok |-> FALSE]
    ELSE IF href.head = "" THEN [ok |-> TRUE, url |-> [origin |-> base.origin, path |-> href.rest]]
    ELSE [ok |-> TRUE, url |-> [origin |-> href.head, path |-> href.rest]]

\* absolute.length
UrlLen(url) ==
    Len(url.origin) + 1 + (IF url.path = "long" THEN LinkTextLimit + MaxOverrun ELSE Len(url.path))

SeenNothing(links) == {}

\* the set `seen`, once `links` have been pushed
Seen(links) == {links[i].href : i \in DOMAIN links}

\* links after the first k anchors; `from` is the index of the anchor an
\* entry was pushed for
RECURSIVE ExtractLinksFromHtml(_, _, _)
ExtractLinksFromHtml(anchors, sameDomainOnly, k) ==
    IF k = 0 THEN <<>>
    ELSE LET links == ExtractLinksFromHtml(anchors, sameDomainOnly, k - 1)
             href == Trim(anchors[k].href)
             absolute == Resolve(href, Base)
             text == Min(anchors[k].text, LinkTextLimit)
         IN  IF IsEmpty(href) \/ StartsWithSkipPrefix(href) THEN links
             ELSE IF ~absolute.ok THEN links
             ELSE IF sameDomainOnly /\ absolute.url.origin # Base.origin THEN links
             ELSE IF absolute.url \in Seen(links) THEN links
             ELSE Append(links, [href |-> absolute.url,
                                 text |-> IF text > 0 THEN text ELSE UrlLen(absolute.url),
                                 from |-> k])

LinkInputs == [api : {"extractLinks"}, anchors : SeqsUpTo(Anchors, MaxAnchors), sameDomainOnly : BOOLEAN]

ExtractLinks ==
    Parsed("extractLinks",
           [links |-> ExtractLinksFromHtml(input.anchors, input.sameDomainOnly, Len(input.anchors))])

ParserInputs == SitemapInputs \cup FetchUrlInputs \cup FeedInputs \cup LinkInputs \cup MetadataInputs

ParserInit ==
    /\ ParserIdle
    /\ input \in ParserInputs
    /\ output = NoOutput

ParserNext ==
    \/ ParseSitemap
    \/ ParseFetchUrl
    \/ ParseFeed
    \/ ExtractLinks
    \/ ParseMetadata

ParserSpec == ParserInit /\ [][ParserNext]_vars

\* ------------------------------------------------------------- RateLimiter claims
Configured == DOMAIN tokens
AcquireActs == {"acquire_admit", "acquire_suspend", "acquire_resume", "acquire_throw"}
AdmitActs == {"acquire_admit", "acquire_resume"}

\* C1: in every reachable state the stored token count of every class lies
\* within 0..capacity.
TokensWithinCapacity ==
    \A op \in Configured : 0 <= tokens[op] /\ tokens[op] <= maxTokens[op]

\* C2: every admitted acquire leaves the count exactly one token below the
\* lazily refilled value at the moment of admission (on the immediate and on
\* the resumed path), and apart from configure a step raises the count only
\* to that refilled value.
AdmissionConsumesOne ==
    /\ step.act \in AdmitActs => tokens[step.op] = step.refilled - Unit
    /\ (step.act \in AcquireActs \cup {"getRemainingTokens"} /\ step.op \in Configured
        /\ tokens[step.op] > step.before) => tokens[step.op] = step.refilled

\* C3: in the window that opens when the class is configured and ends now,
\* the acquire calls admitted number at most capacity + rate * W.
AdmittedWithinBudget ==
    \A op \in Configured :
        admitted[op] * Unit * MsPerSecond
            <= maxTokens[op] * MsPerSecond + refillRate[op] * (now - configuredAt[op])

\* C4: the admissions made since the count was last refilled never number
\* more than the whole tokens that refill left: no two callers are admitted
\* against one available token.
NeverOverdrawn ==
    \A op \in Configured : drawn[op] * Unit <= Max(filled[op], 0)

\* C5: while every acquire call on a class since its fresh configuration came
\* at least 1/rate seconds after the previous one, no caller of that class is
\* suspended.
WellSpacedNeverSuspends ==
    \A p \in Callers : pc[p] = "acquire_wait" => ~wellSpaced[call[p].op]

WellSpacedAdmitted ==
    /\ step.act = "acquire_admit"
    /\ wellSpaced[step.op]
    /\ admitted[step.op] >= 2
    /\ step.before = 0

\* C9: an acquire on a class absent from the limiter throws the configuration
\* error, suspends nobody and changes nothing of the limiter.
UnconfiguredAcquireThrows ==
    [][(step'.act \in AcquireActs /\ ~Has(maxTokens, step'.op))
         => /\ step'.act = "acquire_throw"
            /\ step'.out = "ConfigError"
            /\ UNCHANGED <<limiter, callers>>]_vars

ThrownBesideConfigured ==
    /\ step.act = "acquire_throw"
    /\ ~Has(maxTokens, step.op)
    /\ \E op \in Configured : admitted[op] > 0

\* C10: getRemainingTokens returns floor(tokens), a value in 0..capacity.
PeekIsFloorInRange ==
    (step.act = "getRemainingTokens" /\ step.op \in Configured)
        => /\ step.ret = Floor(tokens[step.op])
           /\ 0 <= step.ret
           /\ step.ret * Unit <= maxTokens[step.op]

\* C12: configure(class, maxRequests, windowMs) leaves capacity = maxRequests,
\* rate = maxRequests / (windowMs / 1000) and tokens = maxRequests; and while no
\* time has passed since the configure, an acquire call suspends only after
\* exactly maxRequests calls were admitted.
ConfigureResetsBucket ==
    /\ step.act = "configure" =>
          /\ maxTokens[step.op] = step.maxRequests * Unit
          /\ tokens[step.op] = step.maxRequests * Unit
          /\ refillRate[step.op] * step.windowMs = step.maxRequests * MsPerSecond * Unit
    /\ (step.act \in {"acquire_admit", "acquire_suspend"} /\ now = configuredAt[step.op]) =>
          LET atOnce == admitted[step.op] - resumed[step.op] IN
          /\ atOnce * Unit <= maxTokens[step.op]
          /\ step.act = "acquire_suspend" => atOnce * Unit = maxTokens[step.op]

\* the limiter's four entries for class b, or "absent" for each missing one
ClassState(b) ==
    [tokens |-> IF Has(tokens, b) THEN tokens[b] ELSE "absent",
     maxTokens |-> IF Has(maxTokens, b) THEN maxTokens[b] ELSE "absent",
     lastRefill |-> IF Has(lastRefill, b) THEN lastRefill[b] ELSE "absent",
     refillRate |-> IF Has(refillRate, b) THEN refillRate[b] ELSE "absent"]

\* C11: a configure, getRemainingTokens or acquire step on class A (suspending
\* and resuming included) leaves the four entries of every other class B as
\* they were, and an acquire on a class that holds at least one token after
\* its refill is admitted at once, whoever is suspended on other classes.
OtherClassesUntouched ==
    [][/\ \A b \in Ops : b # step'.op => ClassState(b)' = ClassState(b)
       /\ (step'.act \in AcquireActs /\ ~NotConfigured(step'.op)
            /\ Refilled(step'.op) >= Unit /\ step'.act # "acquire_resume")
           => step'.act = "acquire_admit"]_vars

AdmittedBesideSuspended ==
    /\ step.act = "acquire_admit"
    /\ \E a \in Ops : a # step.op /\ WaitingOn(a) # {}

\* ------------------------------------------------------------- parser claims
\* the locs of the document's entries, in document order
DocLocs(doc) == SelectSeq(doc.value.entries, HasLoc)
IsIndexDoc(doc) == doc.root \in {"sitemapindex", "ns:sitemapindex"}
IsUrlsetDoc(doc) == doc.root \in {"urlset", "ns:urlset"}

\* C15: the result of fetchSitemap populates exactly one of urls / sitemaps,
\* the one its type names; a urlset document gives a urlset with its entries
\* in document order, an index with expandIndex off gives a sitemapindex with
\* its child locs in document order, and an index with expandIndex on gives a
\* urlset, whatever the number of children.
SitemapVariant ==
    (output.done /\ input.api = "fetchSitemap") =>
        /\ ("urls" \in DOMAIN output) # ("sitemaps" \in DOMAIN output)
        /\ output.type = "urlset" <=> "urls" \in DOMAIN output
        /\ IsUrlsetDoc(input.doc) =>
              output.type = "urlset" /\ output.urls = DocLocs(input.doc)
        /\ (IsIndexDoc(input.doc) /\ ~input.expandIndex) =>
              output.type = "sitemapindex" /\ output.sitemaps = DocLocs(input.doc)
        /\ (IsIndexDoc(input.doc) /\ input.expandIndex) => output.type = "urlset"

\* ------------------------------------------------------------- service claims
\* the caller running fetchSitemap is inside the call for child frame.i
InChild(p) == frame.active /\ pc[p] \in {"acquire_wait", "acquired", "request"}
ExpandedAll == output.done /\ "type" \in DOMAIN output /\ output.type = "urlset"

\* C13: an expanding fetchSitemap takes the children 1..min(n, 10) one after
\* another (child i starts only when the outcomes of all children before it
\* are in), acquires one 'fetch' token for the index and one per child taken,
\* and when it returns it has acquired 1 + min(n, 10) tokens.
ExpansionAccounting ==
    /\ frame.active =>
          /\ frame.i <= Min(input.sitemaps, MaxExpand)
          /\ fetchAcquired <= 1 + frame.i
          /\ httpRequests <= fetchAcquired
          /\ \A p \in Callers :
                /\ InChild(p) => Len(frame.got) = frame.i - 1
                /\ pc[p] = "expanding" => Len(frame.got) = frame.i /\ fetchAcquired = 1 + frame.i
    /\ (output.done /\ "type" \in DOMAIN output /\ input.expandIndex) =>
          fetchAcquired = 1 + Min(input.sitemaps, MaxExpand)
    /\ ExpandedAll => Len(output.got) = Min(input.sitemaps, MaxExpand)

ExpandedElevenChildren ==
    /\ ExpandedAll
    /\ input.sitemaps = MaxExpand + 1
    /\ fetchAcquired = 1 + MaxExpand
    /\ httpRequests = 1 + MaxExpand

\* the urls of the children that returned, concatenated in index order
RECURSIVE ConcatReturned(_)
ConcatReturned(got) ==
    IF got = <<>> THEN <<>>
    ELSE (IF Head(got).returned THEN Head(got).urls ELSE <<>>) \o ConcatReturned(Tail(got))

\* C14: a child whose fetch fails is skipped: the expansion goes on with the
\* next child, it still returns a urlset, and the urls returned are those of
\* the children that returned, concatenated in index order.
FailedChildSkipped ==
    /\ step.act = "child_skipped" =>
          /\ ~frame.got[Len(frame.got)].returned
          /\ ~output.done
          /\ \A p \in Callers : call[p].api = "fetchSitemap" => pc[p] = "expanding"
    /\ step.act = "child_returned" =>
          /\ frame.got[Len(frame.got)].returned
          /\ frame.got[Len(frame.got)].urls \in {ChildUrls(frame.i), <<>>}
    /\ frame.active => frame.allUrls = ConcatReturned(frame.got)
    /\ (output.done /\ "error" \in DOMAIN output) => fetchAcquired <= 1
    /\ ExpandedAll =>
          /\ output.urls = ConcatReturned(output.got)
          /\ Len(output.got) = Min(input.sitemaps, MaxExpand)

ExpandedDespiteFailures ==
    /\ ExpandedAll
    /\ Len(output.got) >= 3
    /\ ~output.got[1].returned
    /\ output.got[2].returned /\ output.got[2].urls # <<>>
    /\ ~output.got[3].returned
    /\ output.urls # <<>>

\* C6: a search() with valid parameters made while fewer than one whole token
\* remains is rejected at once with a RateLimitError: nobody is suspended, no
\* token is consumed and no request is issued; one that passes the pre-check
\* is admitted at once, and no search is ever suspended in acquire.
SearchStarts == calls' = calls + 1 /\ step'.api = "search" /\ step'.out # "ValidationError"
SearchLow == NotConfigured("searxng") \/ Refilled("searxng") < Unit
SearchPreCheck ==
    /\ [](\A p \in Callers : call[p].api = "search" => pc[p] # "acquire_wait")
    /\ [][SearchStarts =>
            IF SearchLow
            THEN /\ step'.out = "RateLimitError"
                 /\ UNCHANGED <<callers, admitted, searchRequests, httpRequests>>
                 /\ tokens'["searxng"] >= tokens["searxng"]
            ELSE /\ step'.out = "admitted"
                 /\ tokens'["searxng"] = Refilled("searxng") - Unit]_vars

SearchRejectedWhileInFlight ==
    /\ step.act = "reject"
    /\ step.out = "RateLimitError"
    /\ step.refilled < Unit
    /\ \E p \in Callers : call[p].api = "search" /\ pc[p] = "request"

\* C16: when the first response to fetchUrl is a 300 with a Location header
\* (one that resolves), exactly one more request is issued, to the Location
\* resolved against the original URL, and whatever answers it is processed
\* without a further request, a second 300 included; when the 300 has no
\* Location header the call fails with a classified error and no further
\* request.
FirstResponseOf(p) ==
    pc[p] = "request" /\ call[p].api = "fetchUrl" /\ step'.p = p /\ step'.api = "fetchUrl"
SecondResponseOf(p) ==
    pc[p] = "redirect" /\ step'.p = p /\ step'.api = "fetchUrl"
MultipleChoicesRule ==
    [][\A p \in Callers :
         /\ (FirstResponseOf(p) /\ step'.resp = "300_location") =>
               /\ httpRequests' = httpRequests + 1
               /\ pc'[p] = "redirect"
               /\ step'.act = "request"
               /\ step'.url = [location |-> "Location", base |-> "normalized"]
         /\ (FirstResponseOf(p) /\ step'.resp = "300_nolocation") =>
               /\ httpRequests' = httpRequests
               /\ pc'[p] = "idle"
               /\ step'.act = "return" /\ step'.out = "Failed"
         /\ (FirstResponseOf(p) /\ step'.resp # "300_location") => pc'[p] = "idle"
         /\ SecondResponseOf(p) =>
               /\ httpRequests' = httpRequests
               /\ pc'[p] = "idle"
               /\ step'.act = "return"
               /\ step'.out = (IF step'.resp = "ok" THEN "ok"
                               ELSE IF step'.resp = "abort" THEN "Timeout" ELSE "Failed")]_vars

SecondMultipleChoicesNotFollowed ==
    /\ step.act = "return" /\ step.api = "fetchUrl"
    /\ step.resp = "300_location"
    /\ step.out = "Failed"
    /\ httpRequests = 2

LargestLimit == MAX_TEXT_LEN + MarkerLen
FieldsBounded ==
    /\ (output.done /\ input.api = "fetchUrl") =>
          /\ output.title <= LargestLimit
          /\ output.content <= LargestLimit
          /\ output.textContent.len <= LargestLimit
    /\ (output.done /\ input.api = "fetchFeed") =>
          /\ output.title <= LargestLimit
          /\ output.link <= LargestLimit
          /\ output.description <= LargestLimit
          /\ output.entry.title <= LargestLimit
          /\ output.entry.link <= LargestLimit
          /\ output.entry.summary <= LargestLimit

\* C19: extractLinks returns one entry per resolved absolute URL, for the
\* first anchor that resolves to it and in document order: no two entries have
\* the same href, none comes from an anchor whose href starts with '#',
\* 'javascript:', 'mailto:' or 'tel:', and with same_domain_only every entry
\* has the origin of the final URL.
Eligible(a, sameDomainOnly) ==
    /\ ~IsEmpty(Trim(a.href))
    /\ Trim(a.href).head \notin SKIP_PREFIXES \cup {"http://["}
    /\ sameDomainOnly => Trim(a.href).head \in {"", Base.origin}
Target(a) ==
    [origin |-> IF a.href.head = "" THEN Base.origin ELSE a.href.head, path |-> a.href.rest]
LinksDeduplicated ==
    (output.done /\ input.api = "extractLinks") =>
        LET links == output.links
            anchors == input.anchors
        IN  /\ \A i, j \in DOMAIN links : i < j =>
                  /\ links[i].href # links[j].href
                  /\ links[i].from < links[j].from
            /\ \A i \in DOMAIN links :
                  LET a == anchors[links[i].from] IN
                  /\ ~(~a.href.lead /\ a.href.head \in SKIP_PREFIXES)
                  /\ links[i].href = Target(a)
                  /\ \A k \in 1..(links[i].from - 1) :
                        Eligible(anchors[k], input.sameDomainOnly) => Target(anchors[k]) # Target(a)
                  /\ input.sameDomainOnly => links[i].href.origin = Base.origin
            /\ \A k \in DOMAIN anchors :
                  Eligible(anchors[k], input.sameDomainOnly) =>
                      \E i \in DOMAIN links : links[i].href = Target(anchors[k])

TwoAnchorsOneEntry ==
    /\ output.done /\ input.api = "extractLinks"
    /\ Len(input.anchors) = MaxAnchors
    /\ input.anchors[1].href = Href(FALSE, "http://site", "a")
    /\ input.anchors[2].href = Href(FALSE, "", "long")
    /\ input.anchors[3].href = Href(TRUE, "", "a")
    /\ Len(output.links) = 2
    /\ output.links[1].from = 1 /\ output.links[2].from = 2

\* C20: the text of every entry of extractLinks is at most 200 characters
\* long, whatever the anchor's visible text and resolved URL.
LinkTextCapped ==
    (output.done /\ input.api = "extractLinks") =>
        \A i \in DOMAIN output.links : output.links[i].text <= LinkTextLimit

\* C21: search tells three upstream failures apart: 403 gives an error that
\* is not of the rate-limit kind, 429 gives the RateLimitError the local
\* pre-check gives, every other non-2xx status gives a generic error naming
\* that status; none is retried and none returns results.
SearchAnswered(p) ==
    pc[p] = "request" /\ call[p].api = "search" /\ step'.p = p /\ step'.api = "search"
UpstreamFailureShapes ==
    [][\A p \in Callers :
         (SearchAnswered(p) /\ step'.resp \in {"403", "429", "404", "500"}) =>
             /\ step'.act = "return" /\ pc'[p] = "idle"
             /\ searchRequests' = searchRequests /\ httpRequests' = httpRequests
             /\ step'.out # "ok"
             /\ step'.status = step'.resp
             /\ step'.resp = "403" => (step'.out = "Forbidden" /\ step'.http # 429)
             /\ step'.resp = "429" => (step'.out = "RateLimitError" /\ step'.http = 429)
             /\ step'.resp \in {"404", "500"} => (step'.out = "UpstreamError" /\ step'.http # 429)]_vars

ForbiddenReturned ==
    /\ step.act = "return" /\ step.api = "search"
    /\ step.resp = "403" /\ step.out = "Forbidden"
    /\ searchRequests = 1
    /\ calls = MaxOps

\* C22: search_then_fetch runs exactly one search, limited to
\* max_results_to_fetch clamped into 1..5 (3 when not given), and returns one
\* item per search result in search order, a failed fetch being an item too;
\* it takes one search token and one fetch token per result.
SearchThenFetchContract ==
    (output.done /\ input.api = "search_then_fetch" /\ "items" \in DOMAIN output) =>
        LET n == Min(input.found, ToFetchClamped(input.given, input.value)) IN
        /\ searchRequests = 1
        /\ admitted["searxng"] = 1
        /\ Len(output.items) = n
        /\ \A k \in 1..Len(output.items) : output.items[k].url = k
        /\ fetchAcquired = n

\* C23: batch_fetch goes through the first 10 URLs at most and returns one
\* item per URL gone through, in input order, a result or an error; a failure
\* does not stop the loop, and each URL takes one fetch token.
BatchFetchContract ==
    (output.done /\ input.api = "batch_fetch" /\ "items" \in DOMAIN output) =>
        /\ Len(output.items) = Min(input.urls, BatchLimit)
        /\ \A k \in 1..Len(output.items) :
              /\ output.items[k].url = k
              /\ output.items[k].ok \/ output.items[k].error # "none"
        /\ fetchAcquired = Len(output.items)
        /\ admitted["fetch"] = Len(output.items)

BatchOfElevenWithFailures ==
    /\ output.done /\ input.api = "batch_fetch"
    /\ input.urls = BatchLimit + 1
    /\ "items" \in DOMAIN output
    /\ Len(output.items) = BatchLimit
    /\ ~output.items[1].ok /\ ~output.items[2].ok
    /\ output.items[BatchLimit].ok

\* C24: fetchMetadata returns finalUrl, statusCode and contentType for every
\* response that arrives, whatever its status, and raises no error; title and
\* imageUrl are set only for a 2xx HTML response, the title only when it lies
\* within the first 150,000 characters of the body.
MetadataAlwaysReturned ==
    (output.done /\ input.api = "fetchMetadata") =>
        /\ "error" \notin DOMAIN output
        /\ output.statusCode = input.status
        /\ output.contentType = input.html
        /\ (output.title \/ output.imageUrl # "none") => (Ok(input.status) /\ input.html)
        /\ output.title => input.titleEnd <= MAX_HEAD_BYTES

\* C25: every operation that has issued a request eventually returns a
\* result or an error, the deadline of the request cancelling it when the
\* remote has not finished responding.
OperationsEventuallyReturn ==
    \A p \in Callers : (pc[p] \in {"request", "redirect", "body"}) ~> (pc[p] = "idle")

\* C26: a search response whose X-RateLimit-Limit header starts with a
\* positive integer p leaves 'search' with capacity p, rate p per second and
\* p tokens; any other response leaves 'search' as it was; no search response
\* changes 'fetch'.
SearchAnsweredWithHeader(p) ==
    /\ pc[p] = "request" /\ call[p].api = "searchWeb"
    /\ step'.p = p /\ step'.act = "return" /\ "header" \in DOMAIN step'
HeaderSetsSearchLimit ==
    [][\A p \in Callers : SearchAnsweredWithHeader(p) =>
         LET h == step'.header IN
         /\ ClassState("fetch")' = ClassState("fetch")
         /\ IF h.present /\ h.numeric /\ h.value > 0
            THEN /\ maxTokens'["search"] = h.value * Unit
                 /\ tokens'["search"] = h.value * Unit
                 /\ refillRate'["search"] = h.value * Unit
            ELSE ClassState("search")' = ClassState("search")]_vars

LimitRaisedAfterFetch ==
    /\ step.act = "return" /\ step.api = "searchWeb" /\ "header" \in DOMAIN step
    /\ step.header.present /\ step.header.numeric /\ step.header.value = MaxLimit
    /\ maxTokens["search"] = MaxLimit * Unit
    /\ tokens["fetch"] < maxTokens["fetch"]

\* C27: when a suspended acquire resumes after its class was reconfigured,
\* the token count it leaves lies within 0..capacity and is the one the
\* latest configuration gives, not one computed from the capacity and rate
\* read before suspending.
ResumeUsesLatestConfigure ==
    (step.act = "acquire_resume") =>
        /\ tokens[step.op] >= 0
        /\ tokens[step.op] <= maxTokens[step.op]
        /\ tokens[step.op] = ResumedTokens(maxTokens[step.op], refillRate[step.op])

\* C28: an acquire on a configured class never throws and, once suspended,
\* is eventually resumed and admitted, also when another caller is suspended
\* on the class and when the stored token count is negative.
AcquireEventuallyAdmitted ==
    /\ [](step.act # "acquire_throw")
    /\ \A p \in Callers :
          (pc[p] = "acquire_wait") ~>
              (pc[p] = "idle" /\ step.act = "acquire_resume" /\ step.p = p /\ step.out = "admitted")

ResumedFromNegativeBesideWaiter ==
    /\ step.act = "acquire_resume"
    /\ step.before < 0
    /\ \E q \in Callers : q # step.p /\ pc[q] = "acquire_wait" /\ call[q].op = step.op

\* C29: a call rejected for its unparseable URL makes no request, takes no
\* 'fetch' token and does not suspend before it is rejected.
StartsWithBadUrl(p) ==
    pc[p] = "idle" /\ pc'[p] # "idle" /\ call'[p].api \in FetchApis /\ ~call'[p].urlOk
BadUrlCostsNothing ==
    [][\A p \in Callers :
         /\ StartsWithBadUrl(p) =>
               /\ pc'[p] # "acquire_wait"
               /\ fetchAcquired' = fetchAcquired
               /\ tokens'["fetch"] >= tokens["fetch"]
         /\ (pc[p] = "acquired" /\ call[p].api \in FetchApis /\ ~call[p].urlOk /\ pc'[p] = "idle") =>
               httpRequests' = httpRequests]_vars

\* C30: an expansion makes at most 11 requests, and a child that is itself
\* an index is not expanded: it adds no URL and no request, and leaves the
\* number of children to fetch as it was.
IndexChildNotExpanded ==
    /\ [](httpRequests <= 1 + MaxExpand)
    /\ [](frame.active => (frame.i <= frame.maxExpand /\ frame.maxExpand <= MaxExpand))
    /\ [][(step'.act = "child_returned" /\ step'.ret = "index") =>
             /\ frame'.allUrls = frame.allUrls
             /\ frame'.maxExpand = frame.maxExpand
             /\ httpRequests' = httpRequests]_vars

ExpandedOverIndexChild ==
    /\ output.done /\ input.expandIndex /\ input.sitemaps = MaxChildren
    /\ "got" \in DOMAIN output
    /\ output.got[1] = Returned(<<>>)
    /\ Len(output.got) = MaxExpand
    /\ httpRequests = 1 + MaxExpand

\* C7: the outbound requests of the acquisition service never outnumber the
\* 'fetch' tokens acquired.
RequestsCoveredByTokens == httpRequests <= fetchAcquired

\* C8: every failure of an acquisition operation reaches its caller as one of
\* the classified errors.
FailuresAreClassified ==
    (step.act = "return" /\ step.api \in FetchApis /\ step.out # "ok")
        => step.out \in {"InvalidURL", "Timeout", "RateLimited", "Failed"}

====
